---- MODULE Spec2Model ----
(***************************************************************************)
(* A model of the 6502 core of wasm-nes-emulator/src/cpu.rs: the register  *)
(* file, the flat memory, the effective-address resolver, the instruction  *)
(* handlers and the fetch-decode-execute loop of CPU::run, together with   *)
(* the host-facing operations new, load, reset, run, load_and_run,         *)
(* mem_read and mem_write.                                                 *)
(*                                                                         *)
(* Representation.  The memory array [u8; 0xFFFF] is kept as a function    *)
(* from the addresses that hold a non-zero byte to that byte; every other  *)
(* index below MEM_SIZE holds 0 (the array is zero-initialised by new()).  *)
(* Peek and Poke read and write this representation and keep it canonical. *)
(* A program (Vec<u8>) is kept the same way: its length and its non-zero   *)
(* bytes by index.                                                         *)
(*                                                                         *)
(* A Rust panic ends the call that raised it: the model records it in      *)
(* `fault` and moves to the phase "panicked".                              *)
(***************************************************************************)
EXTENDS Integers, Sequences, FiniteSets, TLC

VARIABLES
    register_a,        \* CPU.register_a : u8
    register_x,        \* CPU.register_x : u8
    register_y,        \* CPU.register_y : u8
    status,            \* CPU.status : u8
    program_counter,   \* CPU.program_counter : u16
    memory,            \* CPU.memory : [u8; 0xFFFF]
    phase,             \* "ready" | "running" | "halted" | "panicked"
    fault,             \* "none", or the panic that ended the call
    last,              \* history: the last operation and the state it started from
    calls              \* history: how many load / mem_write calls the host has made

vars == <<register_a, register_x, register_y, status, program_counter,
          memory, phase, fault, last, calls>>

-----------------------------------------------------------------------------
(* Widths and bit arithmetic on u8 values.                                 *)

U8 == 0..255

Bit(v, i) == (v \div (2 ^ i)) % 2

BitAnd(a, b) ==
    Bit(a, 0) * Bit(b, 0) + 2 * (Bit(a, 1) * Bit(b, 1))
    + 4 * (Bit(a, 2) * Bit(b, 2)) + 8 * (Bit(a, 3) * Bit(b, 3))
    + 16 * (Bit(a, 4) * Bit(b, 4)) + 32 * (Bit(a, 5) * Bit(b, 5))
    + 64 * (Bit(a, 6) * Bit(b, 6)) + 128 * (Bit(a, 7) * Bit(b, 7))

BitOr(a, b) == a + b - BitAnd(a, b)

BitXor(a, b) == a + b - 2 * BitAnd(a, b)

-----------------------------------------------------------------------------
(* Memory.                                                                 *)

\* memory: [u8; 0xFFFF]: the array has 0xFFFF = 65535 elements, indices 0..65534
MEM_SIZE == 65535

Peek(m, addr) == IF addr \in DOMAIN m THEN m[addr] ELSE 0

Poke(m, addr, data) ==
    IF data = 0
    THEN [x \in DOMAIN m \ {addr} |-> m[x]]
    ELSE [x \in DOMAIN m \cup {addr} |-> IF x = addr THEN data ELSE m[x]]

\* the value of a fallible step: the panic it raised, or its result
Ok(v) == [fault |-> "none", val |-> v]
Err(f) == [fault |-> f, val |-> 0]

\* a fallible step followed by the rest of the computation: a panic ends it
\* (v is the result of the step, taken once)
Then(r, rest(_)) ==
    CHOOSE out \in {IF v.fault # "none" THEN v ELSE rest(v.val) : v \in {r}} : TRUE

\* the result of a fallible step, `other` when it panicked
OrElse(r, other) ==
    CHOOSE out \in {IF v.fault # "none" THEN other ELSE v.val : v \in {r}} : TRUE

\* an index is checked against the array's length
InBounds(addr) == addr < MEM_SIZE

\* self.memory[addr as usize]
mem_read(m, addr) ==
    IF InBounds(addr) THEN Ok(Peek(m, addr)) ELSE Err("index_out_of_bounds")

\* self.memory[addr as usize] = data
mem_write(m, addr, data) ==
    IF InBounds(addr) THEN Ok(Poke(m, addr, data)) ELSE Err("index_out_of_bounds")

\* a u16 `+`: with overflow checks (debug build) it panics on overflow,
\* without them (release build) it wraps
AddU16(a, b, checks) ==
    IF a + b > 65535
    THEN (IF checks THEN Err("add_overflow") ELSE Ok((a + b) % 65536))
    ELSE Ok(a + b)

mem_read_u16(m, pos, checks) ==
    Then(mem_read(m, pos), LAMBDA lo :
    Then(AddU16(pos, 1, checks), LAMBDA pos1 :
    Then(mem_read(m, pos1), LAMBDA hi :
    Ok(hi * 256 + lo))))

\* mutant of mem_write_u16: the high byte is stored first (big-endian)
mem_write_u16_big_endian(m, pos, data, checks) ==
    Then(mem_write(m, pos, data \div 256), LAMBDA m1 :
    Then(AddU16(pos, 1, checks), LAMBDA pos1 :
    mem_write(m1, pos1, data % 256)))

mem_write_u16(m, pos, data, checks) ==
    Then(mem_write(m, pos, data % 256), LAMBDA m1 :
    Then(AddU16(pos, 1, checks), LAMBDA pos1 :
    mem_write(m1, pos1, data \div 256)))

-----------------------------------------------------------------------------
(* The opcode table (crate::opcodes, OPSCODES_MAP): for each opcode value   *)
(* its byte length and its addressing mode.                                *)

ImmediateCodes == {\hA9, \hA2, \hA0, \h29, \h49, \h09, \h69, \hE9}
ZeroPageCodes == {\hA5, \hA6, \hA4, \h85, \h86, \h84, \h25, \h45, \h05, \h65, \hE5}
ZeroPageXCodes == {\hB5, \hB4, \h95, \h94, \h35, \h55, \h15, \h75, \hF5}
ZeroPageYCodes == {\hB6, \h96}
AbsoluteCodes == {\hAD, \hAE, \hAC, \h8D, \h8E, \h8C, \h2D, \h4D, \h0D, \h6D, \hED}
AbsoluteXCodes == {\hBD, \hBC, \h9D, \h3D, \h5D, \h1D, \h7D, \hFD}
AbsoluteYCodes == {\hB9, \hBE, \h99, \h39, \h59, \h19, \h79, \hF9}
IndirectXCodes == {\hA1, \h81, \h21, \h41, \h01, \h61, \hE1}
IndirectYCodes == {\hB1, \h91, \h31, \h51, \h11, \h71, \hF1}
ImpliedCodes == {\hAA, \h8A, \hCA, \hE8, \hA8, \h98, \h88, \hC8, \hEA, \h00}

TableCodes ==
    ImmediateCodes \cup ZeroPageCodes \cup ZeroPageXCodes \cup ZeroPageYCodes
    \cup AbsoluteCodes \cup AbsoluteXCodes \cup AbsoluteYCodes
    \cup IndirectXCodes \cup IndirectYCodes \cup ImpliedCodes

address_mode(code) ==
    CASE code \in ImmediateCodes -> "Immediate"
      [] code \in ZeroPageCodes -> "ZeroPage"
      [] code \in ZeroPageXCodes -> "ZeroPage_X"
      [] code \in ZeroPageYCodes -> "ZeroPage_Y"
      [] code \in AbsoluteCodes -> "Absolute"
      [] code \in AbsoluteXCodes -> "Absolute_X"
      [] code \in AbsoluteYCodes -> "Absolute_Y"
      [] code \in IndirectXCodes -> "Indirect_X"
      [] code \in IndirectYCodes -> "Indirect_Y"
      [] OTHER -> "NoneAddressing"

bytes(code) ==
    CASE address_mode(code) \in {"Absolute", "Absolute_X", "Absolute_Y"} -> 3
      [] address_mode(code) = "NoneAddressing" -> 1
      [] OTHER -> 2

-----------------------------------------------------------------------------
(* The effective-address resolver.  c is the CPU: a record of its fields.  *)

CpuOf(a, x, y, st, pc, m) ==
    [register_a |-> a, register_x |-> x, register_y |-> y, status |-> st,
     program_counter |-> pc, memory |-> m]

\* u8::wrapping_add
wrapping_add_u8(a, b) == (a + b) % 256

\* u16::wrapping_add
wrapping_add_u16(a, b) == (a + b) % 65536

\* the address within memory that an indexed or indirect mode reaches from
\* the operand byte(s) `base` it has read
\* mutant of ZeroPage_X: the sum is taken as a u16 and leaves the zero page
ZeroPage_X_no_wrap(c, pos) == pos + c.register_x

ZeroPage_X(c, pos) == wrapping_add_u8(pos, c.register_x)
ZeroPage_Y(c, pos) == wrapping_add_u8(pos, c.register_y)
Absolute_X(c, base) == wrapping_add_u16(base, c.register_x)
Absolute_Y(c, base) == wrapping_add_u16(base, c.register_y)

\* mutant of Indirect_X: the high byte is read at ptr + 1 as a u16
Indirect_X_no_pointer_wrap(c, base) ==
    Then(mem_read(c.memory, wrapping_add_u8(base, c.register_x)), LAMBDA lo :
    Then(mem_read(c.memory, wrapping_add_u8(base, c.register_x) + 1), LAMBDA hi :
    Ok(hi * 256 + lo)))

Indirect_X(c, base) ==
    Then(mem_read(c.memory, wrapping_add_u8(base, c.register_x)), LAMBDA lo :
    Then(mem_read(c.memory,
                  wrapping_add_u8(wrapping_add_u8(base, c.register_x), 1)), LAMBDA hi :
    Ok(hi * 256 + lo)))

\* mutant of Indirect_Y: the pointer is offset by X
Indirect_Y_adds_x(c, base) ==
    Then(mem_read(c.memory, base), LAMBDA lo :
    Then(mem_read(c.memory, wrapping_add_u8(base, 1)), LAMBDA hi :
    Ok(wrapping_add_u16(hi * 256 + lo, c.register_x))))

Indirect_Y(c, base) ==
    Then(mem_read(c.memory, base), LAMBDA lo :
    Then(mem_read(c.memory, wrapping_add_u8(base, 1)), LAMBDA hi :
    Ok(wrapping_add_u16(hi * 256 + lo, c.register_y))))

\* the operand byte, and the operand word, at the program counter
operand_u8(c) == mem_read(c.memory, c.program_counter)
operand_u16(c, checks) == mem_read_u16(c.memory, c.program_counter, checks)

get_operand_address(c, mode, checks) ==
    CASE mode = "Immediate" -> Ok(c.program_counter)
      [] mode = "ZeroPage" -> operand_u8(c)
      [] mode = "Absolute" -> operand_u16(c, checks)
      [] mode = "ZeroPage_X" ->
            Then(operand_u8(c), LAMBDA pos : Ok(ZeroPage_X(c, pos)))
      [] mode = "ZeroPage_Y" ->
            Then(operand_u8(c), LAMBDA pos : Ok(ZeroPage_Y(c, pos)))
      [] mode = "Absolute_X" ->
            Then(operand_u16(c, checks), LAMBDA base : Ok(Absolute_X(c, base)))
      [] mode = "Absolute_Y" ->
            Then(operand_u16(c, checks), LAMBDA base : Ok(Absolute_Y(c, base)))
      [] mode = "Indirect_X" ->
            Then(operand_u8(c), LAMBDA base : Indirect_X(c, base))
      [] mode = "Indirect_Y" ->
            Then(operand_u8(c), LAMBDA base : Indirect_Y(c, base))
      [] OTHER -> Err("mode_not_supported")

get_value(c, mode, checks) ==
    Then(get_operand_address(c, mode, checks), LAMBDA addr :
    mem_read(c.memory, addr))

-----------------------------------------------------------------------------
(* The instruction handlers.                                               *)

\* status | mask, status & !mask for a one-bit mask 2^bit
SetFlag(st, bit) == IF Bit(st, bit) = 1 THEN st ELSE st + 2 ^ bit
ClearFlag(st, bit) == IF Bit(st, bit) = 1 THEN st - 2 ^ bit ELSE st
PutFlag(st, bit, on) == IF on THEN SetFlag(st, bit) ELSE ClearFlag(st, bit)

CARRY == 0
ZERO == 1
OVERFLOW == 6
NEGATIVE == 7

\* mutant of update_zero_and_negative_flags: the Negative test is `result > 0x80`
update_flags_negative_above_80(st, result) ==
    PutFlag(PutFlag(st, ZERO, result = 0), NEGATIVE, result > 128)

update_zero_and_negative_flags(st, result) ==
    PutFlag(PutFlag(st, ZERO, result = 0), NEGATIVE, Bit(result, 7) # 0)

\* mutant of write_reg: the byte goes to the address after the resolved one
write_reg_next_address(c, mode, reg, checks) ==
    Then(get_operand_address(c, mode, checks), LAMBDA addr :
    Then(mem_write(c.memory, wrapping_add_u16(addr, 1), reg), LAMBDA m :
    Ok([c EXCEPT !.memory = m])))

write_reg(c, mode, reg, checks) ==
    Then(get_operand_address(c, mode, checks), LAMBDA addr :
    Then(mem_write(c.memory, addr, reg), LAMBDA m :
    Ok([c EXCEPT !.memory = m])))

\* (value ^ (sum as u8)) & ((sum as u8) ^ self.register_a) & 0x80 != 0
signed_overflow(a, value, sum) ==
    BitAnd(BitAnd(BitXor(value, sum), BitXor(sum, a)), 128) # 0

\* the sum and the status after the carry and overflow arms
add_sum(a, value) == IF a + value > 255 THEN a + value - 256 ELSE a + value

\* mutant of add_flags: the overflow mask is 0b0010_0000
add_flags_overflow_in_bit5(st, a, value) ==
    PutFlag(PutFlag(st, CARRY, a + value > 255),
            5, signed_overflow(a, value, add_sum(a, value)))

add_flags(st, a, value) ==
    PutFlag(PutFlag(st, CARRY, a + value > 255),
            OVERFLOW, signed_overflow(a, value, add_sum(a, value)))

\* mutant of add_to_reg_a: the incoming Carry is added, as the 6502 does
add_to_reg_a_with_carry_in(c, value) ==
    [c EXCEPT !.register_a = add_sum(c.register_a, value + Bit(c.status, CARRY)) % 256,
              !.status = update_zero_and_negative_flags(
                             add_flags(c.status, c.register_a,
                                       value + Bit(c.status, CARRY)),
                             add_sum(c.register_a, value + Bit(c.status, CARRY)) % 256)]

add_to_reg_a(c, value) ==
    [c EXCEPT !.register_a = add_sum(c.register_a, value),
              !.status = update_zero_and_negative_flags(
                             add_flags(c.status, c.register_a, value),
                             add_sum(c.register_a, value))]

adc(c, mode, checks) ==
    Then(get_value(c, mode, checks), LAMBDA value : Ok(add_to_reg_a(c, value)))

\* `as i8`, i8::wrapping_neg, i8::wrapping_sub, `as u8`
as_i8(v) == IF v >= 128 THEN v - 256 ELSE v
wrap_i8(n) == ((n + 128) % 256) - 128
as_u8(n) == n % 256

\* mutant of sbc_operand: the negation alone, without the borrow
sbc_operand_negation_only(value) == as_u8(wrap_i8(0 - as_i8(value)))

\* (value as i8).wrapping_neg().wrapping_sub(1) as u8
sbc_operand(value) == as_u8(wrap_i8(wrap_i8(0 - as_i8(value)) - 1))

\* mutant of sbc: the borrow is the complement of the incoming Carry
sbc_consumes_carry(c, mode, checks) ==
    Then(get_value(c, mode, checks), LAMBDA value :
    Ok(add_to_reg_a_with_carry_in(c, sbc_operand(value))))

sbc(c, mode, checks) ==
    Then(get_value(c, mode, checks), LAMBDA value :
    Ok(add_to_reg_a(c, sbc_operand(value))))

\* mutant of lda: the load clears the Carry flag
lda_clears_carry(c, mode, checks) ==
    Then(get_value(c, mode, checks), LAMBDA value :
    Ok([c EXCEPT !.register_a = value,
                 !.status = ClearFlag(update_zero_and_negative_flags(c.status, value),
                                      CARRY)]))

lda(c, mode, checks) ==
    Then(get_value(c, mode, checks), LAMBDA value :
    Ok([c EXCEPT !.register_a = value,
                 !.status = update_zero_and_negative_flags(c.status, value)]))

ldx(c, mode, checks) ==
    Then(get_value(c, mode, checks), LAMBDA value :
    Ok([c EXCEPT !.register_x = value,
                 !.status = update_zero_and_negative_flags(c.status, value)]))

ldy(c, mode, checks) ==
    Then(get_value(c, mode, checks), LAMBDA value :
    Ok([c EXCEPT !.register_y = value,
                 !.status = update_zero_and_negative_flags(c.status, value)]))

tax(c) ==
    [c EXCEPT !.register_x = c.register_a,
              !.status = update_zero_and_negative_flags(c.status, c.register_a)]

\* the flags are taken from register_x, the source
txa(c) ==
    [c EXCEPT !.register_a = c.register_x,
              !.status = update_zero_and_negative_flags(c.status, c.register_x)]

\* mutant of inx: the increment saturates at 0xFF
inx_saturating(c) ==
    [c EXCEPT !.register_x = IF c.register_x = 255 THEN 255 ELSE c.register_x + 1,
              !.status = update_zero_and_negative_flags(
                             c.status, IF c.register_x = 255 THEN 255 ELSE c.register_x + 1)]

inx(c) ==
    [c EXCEPT !.register_x = IF c.register_x = 255 THEN 0 ELSE c.register_x + 1,
              !.status = update_zero_and_negative_flags(
                             c.status, IF c.register_x = 255 THEN 0 ELSE c.register_x + 1)]

dex(c) ==
    [c EXCEPT !.register_x = IF c.register_x = 0 THEN 255 ELSE c.register_x - 1,
              !.status = update_zero_and_negative_flags(
                             c.status, IF c.register_x = 0 THEN 255 ELSE c.register_x - 1)]

tay(c) ==
    [c EXCEPT !.register_y = c.register_a,
              !.status = update_zero_and_negative_flags(c.status, c.register_a)]

\* the flags are taken from register_y, the source
tya(c) ==
    [c EXCEPT !.register_a = c.register_y,
              !.status = update_zero_and_negative_flags(c.status, c.register_y)]

iny(c) ==
    [c EXCEPT !.register_y = IF c.register_y = 255 THEN 0 ELSE c.register_y + 1,
              !.status = update_zero_and_negative_flags(
                             c.status, IF c.register_y = 255 THEN 0 ELSE c.register_y + 1)]

dey(c) ==
    [c EXCEPT !.register_y = IF c.register_y = 0 THEN 255 ELSE c.register_y - 1,
              !.status = update_zero_and_negative_flags(
                             c.status, IF c.register_y = 0 THEN 255 ELSE c.register_y - 1)]

and(c, mode, checks) ==
    Then(get_value(c, mode, checks), LAMBDA value :
    Ok([c EXCEPT !.register_a = BitAnd(c.register_a, value),
                 !.status = update_zero_and_negative_flags(
                                c.status, BitAnd(c.register_a, value))]))

ora(c, mode, checks) ==
    Then(get_value(c, mode, checks), LAMBDA value :
    Ok([c EXCEPT !.register_a = BitOr(c.register_a, value),
                 !.status = update_zero_and_negative_flags(
                                c.status, BitOr(c.register_a, value))]))

eor(c, mode, checks) ==
    Then(get_value(c, mode, checks), LAMBDA value :
    Ok([c EXCEPT !.register_a = BitXor(c.register_a, value),
                 !.status = update_zero_and_negative_flags(
                                c.status, BitXor(c.register_a, value))]))

-----------------------------------------------------------------------------
(* CPU::run: one iteration of its loop.                                    *)

\* the arms of `match code`
StaCodes == {\h85, \h95, \h8D, \h9D, \h99, \h81, \h91}
StxCodes == {\h86, \h96, \h8E}
StyCodes == {\h84, \h94, \h8C}
LdaCodes == {\hA9, \hA5, \hB5, \hAD, \hBD, \hB9, \hA1, \hB1}
LdxCodes == {\hA2, \hA6, \hB6, \hAE, \hBE}
LdyCodes == {\hA0, \hA4, \hB4, \hAC, \hBC}
AndCodes == {\h29, \h25, \h35, \h2D, \h3D, \h39, \h21, \h31}
EorCodes == {\h49, \h45, \h55, \h4D, \h5D, \h59, \h41, \h51}
OraCodes == {\h09, \h05, \h15, \h0D, \h1D, \h19, \h01, \h11}
AdcCodes == {\h69, \h65, \h75, \h6D, \h7D, \h79, \h61, \h71}
SbcCodes == {\hE9, \hE5, \hF5, \hED, \hFD, \hF9, \hE1, \hF1}

BRK == 0

\* mutant of dispatch: an opcode without an arm is passed over like NOP
dispatch_unhandled_is_nop(c, code, checks) ==
    LET mode == address_mode(code) IN
    CASE code \in StaCodes -> write_reg(c, mode, c.register_a, checks)
      [] code \in StxCodes -> write_reg(c, mode, c.register_x, checks)
      [] code \in StyCodes -> write_reg(c, mode, c.register_y, checks)
      [] code \in LdaCodes -> lda(c, mode, checks)
      [] code \in LdxCodes -> ldx(c, mode, checks)
      [] code \in LdyCodes -> ldy(c, mode, checks)
      [] code = \hAA -> Ok(tax(c))
      [] code = \h8A -> Ok(txa(c))
      [] code = \hCA -> Ok(dex(c))
      [] code = \hE8 -> Ok(inx(c))
      [] code = \hA8 -> Ok(tay(c))
      [] code = \h98 -> Ok(tya(c))
      [] code = \h88 -> Ok(dey(c))
      [] code = \hC8 -> Ok(iny(c))
      [] code \in AndCodes -> and(c, mode, checks)
      [] code \in EorCodes -> eor(c, mode, checks)
      [] code \in OraCodes -> ora(c, mode, checks)
      [] code \in AdcCodes -> adc(c, mode, checks)
      [] code \in SbcCodes -> sbc(c, mode, checks)
      [] code = \hEA -> Ok(c)
      [] OTHER -> Ok(c)

dispatch(c, code, checks) ==
    LET mode == address_mode(code) IN
    CASE code \in StaCodes -> write_reg(c, mode, c.register_a, checks)
      [] code \in StxCodes -> write_reg(c, mode, c.register_x, checks)
      [] code \in StyCodes -> write_reg(c, mode, c.register_y, checks)
      [] code \in LdaCodes -> lda(c, mode, checks)
      [] code \in LdxCodes -> ldx(c, mode, checks)
      [] code \in LdyCodes -> ldy(c, mode, checks)
      [] code = \hAA -> Ok(tax(c))
      [] code = \h8A -> Ok(txa(c))
      [] code = \hCA -> Ok(dex(c))
      [] code = \hE8 -> Ok(inx(c))
      [] code = \hA8 -> Ok(tay(c))
      [] code = \h98 -> Ok(tya(c))
      [] code = \h88 -> Ok(dey(c))
      [] code = \hC8 -> Ok(iny(c))
      [] code \in AndCodes -> and(c, mode, checks)
      [] code \in EorCodes -> eor(c, mode, checks)
      [] code \in OraCodes -> ora(c, mode, checks)
      [] code \in AdcCodes -> adc(c, mode, checks)
      [] code \in SbcCodes -> sbc(c, mode, checks)
      [] code = \hEA -> Ok(c)
      [] OTHER -> Err("not_yet_implemented")

\* opcodes.get(&code): the table has an entry for every opcode of TableCodes;
\* in_table says whether it has one for a code outside them
lookup(code, in_table) == code \in TableCodes \/ in_table

\* if program_counter_state == self.program_counter {
\*     self.program_counter += (opcode.bytes - 1) as u16; }
\* mutant of advance: the opcode byte is counted twice
advance_full_length(c, program_counter_state, code, checks) ==
    IF program_counter_state = c.program_counter
    THEN Then(AddU16(c.program_counter, bytes(code), checks), LAMBDA pc :
         Ok([c EXCEPT !.program_counter = pc]))
    ELSE Ok(c)

advance(c, program_counter_state, code, checks) ==
    IF program_counter_state = c.program_counter
    THEN Then(AddU16(c.program_counter, bytes(code) - 1, checks), LAMBDA pc :
         Ok([c EXCEPT !.program_counter = pc]))
    ELSE Ok(c)

\* how an iteration ends: the loop goes on ("running"), run returns ("halted")
\* or a panic ends it ("panicked"); c is the CPU it leaves, code the opcode
Outcome(ph, f, c, code) == [phase |-> ph, fault |-> f, cpu |-> c, code |-> code]

\* a panic leaves the CPU as it was when it was raised
OrPanic(r, c, code, rest(_)) ==
    CHOOSE out \in {IF v.fault # "none" THEN Outcome("panicked", v.fault, c, code)
                    ELSE rest(v.val) : v \in {r}} : TRUE

\* mutant of break_arm: the break sets the B flag (bit 4) on its way out
break_arm_sets_b(c, code) ==
    Outcome("halted", "none", [c EXCEPT !.status = SetFlag(@, 4)], code)

\* 0x00 => { return }
break_arm(c, code) == Outcome("halted", "none", c, code)

\* mutant of decode_and_execute: NOP returns from run() as the break does
decode_and_execute_nop_returns(c, code, checks, in_table) ==
    IF ~lookup(code, in_table) THEN Outcome("panicked", "opcode_not_found", c, code)
    ELSE IF code = BRK \/ code = \hEA THEN break_arm(c, code)
    ELSE OrPanic(dispatch(c, code, checks), c, code, LAMBDA done :
         OrPanic(advance(done, c.program_counter, code, checks), done, code,
                 LAMBDA next : Outcome("running", "none", next, code)))

\* the iteration from the table lookup on; c has the program counter past the opcode
decode_and_execute(c, code, checks, in_table) ==
    IF ~lookup(code, in_table) THEN Outcome("panicked", "opcode_not_found", c, code)
    ELSE IF code = BRK THEN break_arm(c, code)
    ELSE OrPanic(dispatch(c, code, checks), c, code, LAMBDA done :
         OrPanic(advance(done, c.program_counter, code, checks), done, code,
                 LAMBDA next : Outcome("running", "none", next, code)))

\* mutant of run_step: the program counter is not moved past the opcode
run_step_no_increment(c, checks, in_table) ==
    OrPanic(mem_read(c.memory, c.program_counter), c, -1, LAMBDA code :
    decode_and_execute(c, code, checks, in_table))

run_step(c, checks, in_table) ==
    OrPanic(mem_read(c.memory, c.program_counter), c, -1, LAMBDA code :
    OrPanic(AddU16(c.program_counter, 1, checks), c, code, LAMBDA pc :
    decode_and_execute([c EXCEPT !.program_counter = pc], code, checks, in_table)))

-----------------------------------------------------------------------------
(* The host-facing operations.                                             *)

\* a program: its length and its non-zero bytes by index
Prog(seq) ==
    [len |-> Len(seq),
     bytes |-> [i \in {j \in 0..(Len(seq) - 1) : seq[j + 1] # 0} |-> seq[i + 1]]]

ProgramAt(program, i) == IF i \in DOMAIN program.bytes THEN program.bytes[i] ELSE 0

NoProgram == Prog(<<>>)

PROGRAM_BASE == 32768

RESET_VECTOR == 65532

\* self.memory[start .. start + program.len()].copy_from_slice(&program[..])
copy_from_slice(m, start, program) ==
    IF start + program.len > MEM_SIZE THEN Err("range_end_index_out_of_range")
    ELSE Ok([a \in (DOMAIN m \ (start..(start + program.len - 1)))
                    \cup {start + i : i \in DOMAIN program.bytes} |->
                IF (a - start) \in DOMAIN program.bytes
                THEN program.bytes[a - start] ELSE m[a]])

new == CpuOf(0, 0, 0, 0, 0, <<>>)

load(c, program, checks) ==
    Then(copy_from_slice(c.memory, PROGRAM_BASE, program), LAMBDA copied :
    Then(mem_write_u16(copied, RESET_VECTOR, PROGRAM_BASE, checks), LAMBDA m :
    Ok([c EXCEPT !.memory = m])))

\* mutant of reset: the status register is not cleared
reset_keeps_status(c, checks) ==
    Then(mem_read_u16(c.memory, RESET_VECTOR, checks), LAMBDA pc :
    Ok([c EXCEPT !.register_a = 0, !.register_x = 0, !.register_y = 0,
                 !.program_counter = pc]))

reset(c, checks) ==
    Then(mem_read_u16(c.memory, RESET_VECTOR, checks), LAMBDA pc :
    Ok([c EXCEPT !.register_a = 0, !.register_x = 0, !.register_y = 0,
                 !.status = 0, !.program_counter = pc]))

-----------------------------------------------------------------------------
(* The state machine: a host that owns one CPU and calls its operations.   *)

\* bounds of the model
MaxMutations == 2      \* load, load_and_run and mem_write calls in a session
MaxRuns == 2           \* run and load_and_run calls in a session

\* the programs the host loads
LongProgram(n, at, byte) == [len |-> n, bytes |-> [i \in at |-> byte]]

Programs ==
    { Prog(<<>>),
      Prog(<<\h00>>),
      Prog(<<\hA9, \h05, \h85, \h10, \h00>>),       \* LDA #5; STA $10; BRK
      Prog(<<\hA9, \hC0, \hAA, \hE8, \h00>>),       \* LDA #$C0; TAX; INX; BRK
      Prog(<<\hA9, \h50, \h69, \h50, \h00>>),       \* LDA #$50; ADC #$50; BRK
      Prog(<<\hA9, \hFF, \h69, \h01, \h00>>),       \* LDA #$FF; ADC #1; BRK
      Prog(<<\hE9, \h00, \hA8, \h88, \h00>>),       \* SBC #0; TAY; DEY; BRK
      Prog(<<\h8D, \hFF, \hFF>>),                   \* STA $FFFF
      Prog(<<\hA2, \h01, \hB5, \hFF, \h00>>),       \* LDX #1; LDA $FF,X; BRK
      Prog(<<\hEA, \hEA, \h00>>),                   \* NOP; NOP; BRK
      Prog(<<\hEA, \h02>>),                         \* NOP; an opcode with no handler
      Prog(<<\hA9, \hEA, \h8D, \h05, \h80>>),       \* LDA #$EA; STA $8005 (its own BRK)
      Prog(<<\hA0, \h10, \h91, \h20, \hB1, \h20>>), \* LDY #$10; STA ($20),Y; LDA ($20),Y
      Prog(<<\hA2, \hFF, \hBD, \h00, \hFF>>),       \* LDX #$FF; LDA $FF00,X
      \* LDA #$3C; AND #$3C; ORA #$7E; EOR #$FF; SBC #$3C; BRK
      Prog(<<\hA9, \h3C, \h29, \h3C, \h09, \h7E, \h49, \hFF, \hE9, \h3C, \h00>>),
      \* LDX #$3C; TXA; TAY; DEX; INY; LDY $8001; STY $3C; BRK
      Prog(<<\hA2, \h3C, \h8A, \hA8, \hCA, \hC8, \hAC, \h01, \h80, \h84, \h3C, \h00>>),
      LongProgram(32764, {32763}, \hEA),            \* ends right below the reset vector
      LongProgram(32766, {32764, 32765}, \hEA),     \* covers the reset vector
      LongProgram(32767, {0, 32766}, \hE8),         \* fills the memory to its end
      LongProgram(32768, {0}, \hEA) }               \* one byte more than fits

\* the bytes the host pokes, and the addresses it peeks
HostWrites ==
    { <<\hFFFC, \hFE>>, <<\hFFFD, \hFF>>, <<\hFFFE, \hEA>>,
      <<\h8000, \hE8>>, <<\h0010, \h80>>, <<\hFFFF, \h01>> }

HostReads == {\h0010, \hFFFF}

Cpu == CpuOf(register_a, register_x, register_y, status, program_counter, memory)

cpu_vars == <<register_a, register_x, register_y, status, program_counter, memory>>

SetCpu(c) ==
    /\ register_a' = c.register_a
    /\ register_x' = c.register_x
    /\ register_y' = c.register_y
    /\ status' = c.status
    /\ program_counter' = c.program_counter
    /\ memory' = c.memory

History(op, code, addr, value, program) ==
    [op |-> op, code |-> code, addr |-> addr, value |-> value,
     pre |-> Cpu, program |-> program]

\* the call returned res: its result, or the panic that ended it
Finish(res, ok_phase) ==
    \E r \in {res} :
        IF r.fault = "none"
        THEN SetCpu(r.val) /\ phase' = ok_phase /\ fault' = "none"
        ELSE UNCHANGED cpu_vars /\ phase' = "panicked" /\ fault' = r.fault

Idle == phase \in {"ready", "halted"}

\* the CPU is c
IsCpu(c) ==
    /\ register_a = c.register_a
    /\ register_x = c.register_x
    /\ register_y = c.register_y
    /\ status = c.status
    /\ program_counter = c.program_counter
    /\ memory = c.memory

Init ==
    /\ IsCpu(new)
    /\ phase = "ready"
    /\ fault = "none"
    /\ last = [op |-> "new", code |-> -1, addr |-> -1, value |-> -1,
               pre |-> new, program |-> NoProgram]
    /\ calls = [mutations |-> 0, runs |-> 0]

\* cpu.load(program)
Load(program) ==
    /\ Idle
    /\ calls.mutations < MaxMutations
    /\ \E checks \in BOOLEAN : Finish(load(Cpu, program, checks), phase)
    /\ last' = History("load", -1, -1, -1, program)
    /\ calls' = [calls EXCEPT !.mutations = @ + 1]

\* cpu.reset()
Reset ==
    /\ Idle
    /\ \E checks \in BOOLEAN : Finish(reset(Cpu, checks), phase)
    /\ last' = History("reset", -1, -1, -1, NoProgram)
    /\ UNCHANGED calls

\* cpu.run(): the call enters the loop
Run ==
    /\ Idle
    /\ calls.runs < MaxRuns
    /\ phase' = "running"
    /\ last' = History("run", -1, -1, -1, NoProgram)
    /\ calls' = [calls EXCEPT !.runs = @ + 1]
    /\ UNCHANGED <<cpu_vars, fault>>

\* load, then reset
load_and_reset(c, program, checks) ==
    Then(load(c, program, checks), LAMBDA loaded : reset(loaded, checks))

\* cpu.load_and_run(program): load, reset, and the call enters the loop of run
LoadAndRun(program) ==
    /\ Idle
    /\ calls.mutations < MaxMutations
    /\ calls.runs < MaxRuns
    /\ \E checks \in BOOLEAN :
          Finish(load_and_reset(Cpu, program, checks), "running")
    /\ last' = History("load_and_run", -1, -1, -1, program)
    /\ calls' = [mutations |-> calls.mutations + 1, runs |-> calls.runs + 1]

\* cpu.mem_read(addr)
MemRead(addr) ==
    /\ Idle
    /\ \E r \in {mem_read(memory, addr)} :
          /\ Finish(Then(r, LAMBDA byte : Ok(Cpu)), phase)
          /\ last' = History("mem_read", -1, addr, r.val, NoProgram)
    /\ UNCHANGED calls

\* cpu.mem_write(addr, data)
MemWrite(addr, data) ==
    /\ Idle
    /\ calls.mutations < MaxMutations
    /\ Finish(Then(mem_write(memory, addr, data),
                    LAMBDA m : Ok([Cpu EXCEPT !.memory = m])), phase)
    /\ last' = History("mem_write", -1, addr, data, NoProgram)
    /\ calls' = [calls EXCEPT !.mutations = @ + 1]

\* the operand address the handler of `code` resolves, -1 when it resolves none
ResolvedAddress(c, code, checks) ==
    IF code \in TableCodes /\ address_mode(code) # "NoneAddressing"
    THEN OrElse(get_operand_address(
                        [c EXCEPT !.program_counter = (@ + 1) % 65536],
                        address_mode(code), checks), -1)
    ELSE -1

\* an iteration's outcome with the operand address it resolved
Observed(c, r, checks) == [outcome |-> r, addr |-> ResolvedAddress(c, r.code, checks)]

\* what an iteration can do from c in the two builds: they differ only when an
\* addition overflows, which is when the build with overflow checks panics
BothBuilds(c, in_table) ==
    UNION { {Observed(c, r, TRUE)}
            \cup (IF r.fault = "add_overflow"
                  THEN {Observed(c, run_step(c, FALSE, in_table), FALSE)} ELSE {}) :
            r \in {run_step(c, TRUE, in_table)} }

\* what an iteration can do from c, in either build and whether or not the table
\* has an entry for a code outside TableCodes: the tables differ only when the
\* lookup of the smaller one fails
StepOutcomes(c) ==
    UNION { {o} \cup (IF o.outcome.fault = "opcode_not_found"
                      THEN BothBuilds(c, TRUE) ELSE {}) :
            o \in BothBuilds(c, FALSE) }

\* one iteration of the loop of run
Step ==
    /\ phase = "running"
    /\ \E o \in StepOutcomes(Cpu) :
          /\ SetCpu(o.outcome.cpu)
          /\ phase' = o.outcome.phase
          /\ fault' = o.outcome.fault
          /\ last' = History("step", o.outcome.code, o.addr, -1, NoProgram)
    /\ UNCHANGED calls

Next ==
    \/ \E program \in Programs : Load(program)
    \/ Reset
    \/ Run
    \/ \E program \in Programs : LoadAndRun(program)
    \/ \E addr \in HostReads : MemRead(addr)
    \/ \E w \in HostWrites : MemWrite(w[1], w[2])
    \/ Step

Spec == Init /\ [][Next]_vars

-----------------------------------------------------------------------------
(* One instruction from any state.  The fields of the CPU are public and   *)
(* mem_write reaches every byte of the memory, so the host can put the CPU *)
(* in any state before it calls run(): SpecInstr starts run() on an opcode *)
(* with its operand bytes at the program counter, over a choice of         *)
(* registers, flags, program counters and memory backgrounds.              *)

\* the memory m with `byte` at addr, when the array has such an index
Place(m, addr, byte) == IF InBounds(addr) THEN Poke(m, addr, byte) ELSE m

\* opcode and two operand bytes at pc, over the background m
WithInstruction(m, pc, code, lo, hi) ==
    Place(Place(Place(m, pc + 2, hi), pc + 1, lo), pc, code)

\* the host called run() on the CPU c
Entered(c) ==
    /\ IsCpu(c)
    /\ phase = "running"
    /\ fault = "none"
    /\ last = [op |-> "run", code |-> -1, addr |-> -1, value |-> -1,
               pre |-> c, program |-> NoProgram]
    /\ calls = [mutations |-> 0, runs |-> 1]

InstrCodes == TableCodes \cup {\h02, \h4C, \hFF}
InstrA == {\h00, \h81}
InstrIndex == {\h00, \h01, \hFF}
InstrStatus == {\h00, \hC3}
InstrPc == {\h0010, \h00FE, \hFFFC, \hFFFD, \hFFFE, \hFFFF}
InstrOperands == {<<\h00, \h00>>, <<\hFF, \h00>>, <<\hFF, \hFF>>, <<\hFE, \hFF>>}
InstrBackgrounds ==
    { <<>>,
      (\h0000 :> \hFF) @@ (\h0001 :> \hFF) @@ (\h00FE :> \hFE) @@ (\h00FF :> \hFF)
          @@ (\hFFFE :> \h7F) }

InitInstr ==
    \E a \in InstrA, x \in InstrIndex, y \in InstrIndex, st \in InstrStatus,
       pc \in InstrPc, code \in InstrCodes, operands \in InstrOperands,
       m \in InstrBackgrounds :
        Entered(CpuOf(a, x, y, st, pc,
                      WithInstruction(m, pc, code, operands[1], operands[2])))

SpecInstr == InitInstr /\ [][Step]_vars

\* run() to its end: every opcode at the top of the memory, where the
\* program counter is about to leave the u16 range, and at 0x0010, where a
\* store of A = 0xEA to 0x12 overwrites the byte that follows it
RunPc == {\h0010, \hFFFC, \hFFFD, \hFFFE, \hFFFF}
RunOperands == {<<\h12, \h00>>, <<\hFF, \hFF>>}

InitRun ==
    \E pc \in RunPc, code \in InstrCodes, operands \in RunOperands :
        Entered(CpuOf(\hEA, \h01, \hFF, \h00, pc,
                      WithInstruction(<<>>, pc, code, operands[1], operands[2])))

\* run() is synchronous and has no suspension point: while the loop is
\* running, its next iteration is taken
SpecRun == InitRun /\ [][Step]_vars /\ WF_vars(Step)

-----------------------------------------------------------------------------
(* The arithmetic and flag laws over every byte: SpecAlu starts run() on    *)
(* one immediate-mode or implied instruction at PROGRAM_BASE, with every    *)
(* accumulator and every operand byte for add and subtract, or on an        *)
(* increment and its decrement, with every value of the register.          *)

AluStatus == {\h00, \hC3}
AluMasks == {\h00, \h0F, \h80, \hFF}
ImpliedFlagCodes == {\hAA, \h8A, \hCA, \hE8, \hA8, \h98, \h88, \hC8}

\* an increment and the decrement that follows it
AluPairs == {<<\hE8, \hCA>>, <<\hC8, \h88>>}

AluStart(a, x, y, st, code, value) ==
    Entered(CpuOf(a, x, y, st, PROGRAM_BASE,
                  WithInstruction(<<>>, PROGRAM_BASE, code, value, BRK)))

InitAlu ==
    \/ \E a \in U8, value \in U8, st \in AluStatus, code \in {\h69, \hE9} :
          AluStart(a, 0, 0, st, code, value)
    \/ \E a \in U8, value \in AluMasks, st \in AluStatus, code \in {\h29, \h09, \h49} :
          AluStart(a, 0, 0, st, code, value)
    \/ \E value \in U8, st \in AluStatus, code \in {\hA9, \hA2, \hA0} :
          AluStart(\h55, \h55, \h55, st, code, value)
    \/ \E r \in U8, st \in AluStatus, code \in ImpliedFlagCodes :
          AluStart(r, 255 - r, (r + 128) % 256, st, code, BRK)
    \/ \E r \in U8, st \in AluStatus, pair \in AluPairs :
          AluStart(r, 255 - r, (r + 128) % 256, st, pair[1], pair[2])

SpecAlu == InitAlu /\ [][Step]_vars

-----------------------------------------------------------------------------
(* The address resolver over every operand byte and every index: SpecAddr   *)
(* starts run() on one indexed or indirect load at PROGRAM_BASE, or on a    *)
(* store and a load through the same Indirect_Y pointer, over a zero page   *)
(* that holds pointers.                                                     *)

\* the zero page: the pointer 0x1234 at 0x20, 0xFFFE at 0x7E, 0x00FF at 0x7F,
\* 0x807F at 0xFF (its high byte at 0x00), and a byte at 0x0100 that no
\* pointer may reach
PointerBackground ==
    (\h0020 :> \h34) @@ (\h0021 :> \h12) @@ (\h007E :> \hFE) @@ (\h007F :> \hFF)
        @@ (\h00FF :> \h7F) @@ (\h0000 :> \h80) @@ (\h0100 :> \h55)

\* the index register the addressing mode does not use, and the accumulator
OtherIndex == \h5A

\* the operand words of the absolute modes, as <<low byte, high byte>>
AddrBases ==
    {<<\h00, \h00>>, <<\hFF, \h00>>, <<\h01, \hFF>>, <<\hFF, \hFF>>, <<\h34, \h12>>}

AddrStatus == {\h00, \hC3}

AddrStart(x, y, st, code, lo, hi) ==
    Entered(CpuOf(OtherIndex, x, y, st, PROGRAM_BASE,
                  WithInstruction(PointerBackground, PROGRAM_BASE, code, lo, hi)))

\* STA (p),Y; LDA #0; LDA (p),Y; BRK
StoreThenLoad(p) ==
    WithInstruction(
        WithInstruction(
            WithInstruction(PointerBackground, PROGRAM_BASE + 4, \hB1, p, BRK),
            PROGRAM_BASE + 2, \hA9, \h00, \hB1),
        PROGRAM_BASE, \h91, p, \hA9)

InitAddr ==
    \/ \E pos \in U8, x \in U8 : AddrStart(x, OtherIndex, \h00, \hB5, pos, BRK)
    \/ \E pos \in U8, y \in U8 : AddrStart(OtherIndex, y, \h00, \hB6, pos, BRK)
    \/ \E base \in AddrBases, x \in U8, st \in AddrStatus :
          AddrStart(x, OtherIndex, st, \hBD, base[1], base[2])
    \/ \E base \in AddrBases, y \in U8, st \in AddrStatus :
          AddrStart(OtherIndex, y, st, \hB9, base[1], base[2])
    \/ \E base \in U8, x \in U8 : AddrStart(x, OtherIndex, \h00, \hA1, base, BRK)
    \/ \E p \in U8, y \in U8 :
          Entered(CpuOf(OtherIndex, OtherIndex, y, \h00, PROGRAM_BASE, StoreThenLoad(p)))

SpecAddr == InitAddr /\ [][Step]_vars

-----------------------------------------------------------------------------
(* The load-store round trip: a fresh CPU, one load_and_run of             *)
(* LDA #v; STA a; BRK, for every byte v and every zero-page address a.     *)

RoundTripProgram(v, a) == Prog(<<\hA9, v, \h85, a, \h00>>)

RoundTrip ==
    /\ last.op = "new"
    /\ \E v \in U8, a \in U8 : LoadAndRun(RoundTripProgram(v, a))

NextRoundTrip == RoundTrip \/ Step

SpecRoundTrip == Init /\ [][NextRoundTrip]_vars

-----------------------------------------------------------------------------
(* The claims.                                                             *)

\* the last operation was an iteration of run's loop
Stepped == last.op = "step"

\* ... that executed an instruction to its end (the loop goes on)
Executed == Stepped /\ phase = "running"

\* the byte after the opcode the last iteration fetched
OperandOf(pre) == Peek(pre.memory, pre.program_counter + 1)

SameRegisters(pre) ==
    /\ register_a = pre.register_a
    /\ register_x = pre.register_x
    /\ register_y = pre.register_y
    /\ status = pre.status

\* C1: every memory access is in range: no mem_read or mem_write of the host,
\* and no fetch, operand read, resolved-address read or store of run(), is
\* ever refused as an index outside the memory array.
C1_EveryAccessInRange == fault # "index_out_of_bounds"

\* C2: the only fatal outcomes of an iteration of run() are the unknown
\* opcode, the unimplemented opcode and the no-addressing sentinel reaching
\* the resolver: an opcode that has a handler always completes.
C2_OnlyDeclaredFatalOutcomes ==
    (Stepped /\ phase = "panicked") =>
        fault \in {"opcode_not_found", "not_yet_implemented", "mode_not_supported"}

\* C3 as claimed: when run() returns on the break opcode, A, X, Y, status,
\* the program counter and the memory are what they were before the break
\* was fetched.
C3_BreakChangesNothing ==
    (Stepped /\ phase = "halted") => Cpu = last.pre

\* C3 as amended: when run() returns on the break opcode, A, X, Y, status and
\* the memory are what they were before the break was fetched, and the
\* program counter is one past the address of the break opcode.
C3_BreakChangesOnlyPc ==
    (Stepped /\ phase = "halted") =>
        /\ last.code = BRK
        /\ SameRegisters(last.pre)
        /\ memory = last.pre.memory
        /\ program_counter = last.pre.program_counter + 1

\* C3 witness: run() returned on a break that followed executed instructions
C3_Witness ==
    /\ Stepped /\ phase = "halted"
    /\ register_a = \hA0 /\ status = \hC0
    /\ program_counter = PROGRAM_BASE + 5

\* the byte length C4 states for each opcode, by its addressing mode
C4_Length(code) ==
    IF code \in ImpliedCodes THEN 1
    ELSE IF code \in AbsoluteCodes \cup AbsoluteXCodes \cup AbsoluteYCodes THEN 3
    ELSE 2

\* C4: after run() executes a non-break in-scope instruction, the program
\* counter is its value before the fetch plus the instruction's byte length:
\* 1 for implied instructions, 3 for the absolute modes, 2 for the others.
C4_PcAdvancesByLength ==
    Executed =>
        /\ last.code \in TableCodes \ {BRK}
        /\ program_counter = last.pre.program_counter + C4_Length(last.code)

\* C4 witness: a three-byte store through Absolute_X has executed
C4_Witness ==
    /\ Executed
    /\ last.code = \h9D
    /\ program_counter = last.pre.program_counter + 3
    /\ memory # last.pre.memory

\* the addresses that hold a non-zero byte before or after the last operation:
\* every other address holds 0 at both times
Touched == DOMAIN memory \cup DOMAIN last.pre.memory

\* the addresses of the program's non-zero bytes, and of the memory's
ProgramTouched(program) ==
    {PROGRAM_BASE + i : i \in DOMAIN program.bytes}
    \cup {a \in Touched : a >= PROGRAM_BASE /\ a < PROGRAM_BASE + program.len}

Loaded == last.op = "load" /\ PROGRAM_BASE + last.program.len <= MEM_SIZE

\* what C5 says besides the program bytes: load succeeds, the reset vector
\* holds 0x8000, the other bytes and the registers are unchanged
C5_Frame ==
    /\ fault = "none"
    /\ Peek(memory, RESET_VECTOR) = \h00
    /\ Peek(memory, RESET_VECTOR + 1) = \h80
    /\ \A a \in Touched :
          (a < PROGRAM_BASE \/ a >= PROGRAM_BASE + last.program.len)
          /\ a \notin {RESET_VECTOR, RESET_VECTOR + 1}
          => Peek(memory, a) = Peek(last.pre.memory, a)
    /\ SameRegisters(last.pre)
    /\ program_counter = last.pre.program_counter

\* C5 as claimed: after load(program) of a program that fits, the memory
\* holds every byte of the program from 0x8000 on, the reset vector holds
\* 0x8000, and nothing else has changed.
C5_LoadCopiesWholeProgram ==
    Loaded =>
        /\ C5_Frame
        /\ \A a \in ProgramTouched(last.program) :
              Peek(memory, a) = ProgramAt(last.program, a - PROGRAM_BASE)

\* C5 as amended: after load(program) of a program that fits, the memory
\* holds every byte of the program from 0x8000 on except at 0xFFFC and
\* 0xFFFD, which hold 0x00 and 0x80 also when the program covers them, and
\* nothing else has changed.
C5_LoadCopiesProgramUnderVector ==
    Loaded =>
        /\ C5_Frame
        /\ \A a \in ProgramTouched(last.program) \ {RESET_VECTOR, RESET_VECTOR + 1} :
              Peek(memory, a) = ProgramAt(last.program, a - PROGRAM_BASE)

\* C5 witness: a loaded program that covers the reset vector
C5_Witness ==
    /\ Loaded /\ fault = "none"
    /\ ProgramAt(last.program, RESET_VECTOR - PROGRAM_BASE) = \hEA
    /\ Peek(memory, RESET_VECTOR) = \h00
    /\ Peek(last.pre.memory, \h0010) = \h80
    /\ Peek(memory, \h0010) = \h80

\* the little-endian word the memory m holds at the reset vector
VectorOf(m) == Peek(m, RESET_VECTOR) + 256 * Peek(m, RESET_VECTOR + 1)

\* C6: reset() sets A, X, Y and status to 0 and the program counter to
\* mem[0xFFFC] + 256 * mem[0xFFFD] and leaves the memory unchanged, whatever
\* the state before; so a reset() that follows a load(program), and the
\* reset of load_and_run(program), leave the program counter at 0x8000.
C6_Reset ==
    [][ /\ last'.op = "reset" =>
              /\ fault' = "none"
              /\ register_a' = 0 /\ register_x' = 0 /\ register_y' = 0
              /\ status' = 0
              /\ program_counter' = VectorOf(memory)
              /\ memory' = memory
              /\ (last.op = "load" /\ fault = "none" => program_counter' = PROGRAM_BASE)
        /\ (last'.op = "load_and_run" /\ fault' = "none") =>
              /\ register_a' = 0 /\ register_x' = 0 /\ register_y' = 0
              /\ status' = 0
              /\ program_counter' = PROGRAM_BASE ]_vars

\* C6 witness: a reset of a CPU that had run code before (its registers and
\* flags were set, its program counter was elsewhere) with a program loaded
C6_Witness ==
    /\ last.op = "reset"
    /\ last.pre.register_a # 0 /\ last.pre.status # 0
    /\ last.pre.program_counter # PROGRAM_BASE
    /\ register_a = 0 /\ status = 0
    /\ program_counter = PROGRAM_BASE

FlagCodes ==
    LdaCodes \cup LdxCodes \cup LdyCodes \cup AndCodes \cup OraCodes \cup EorCodes
    \cup AdcCodes \cup SbcCodes \cup ImpliedFlagCodes

\* the register an instruction writes
C7_Result(code) ==
    IF code \in LdxCodes \cup {\hAA, \hE8, \hCA} THEN register_x
    ELSE IF code \in LdyCodes \cup {\hA8, \hC8, \h88} THEN register_y
    ELSE register_a

\* C7: after every flag-updating instruction the Zero flag is set iff the
\* register it wrote is 0x00 and the Negative flag is set iff bit 7 of that
\* register is set, whatever the flags were before.
C7_ZeroNegativeLaw ==
    (Executed /\ last.code \in FlagCodes) =>
        /\ (Bit(status, ZERO) = 1) <=> (C7_Result(last.code) = 0)
        /\ (Bit(status, NEGATIVE) = 1) <=> (C7_Result(last.code) >= 128)

\* C7 witness: a transfer of 0x00 to A cleared a Negative flag that was set
\* and left the Zero flag set
C7_Witness ==
    /\ Executed /\ last.code = \h8A
    /\ last.pre.status = \hC3 /\ last.pre.register_a # 0
    /\ register_a = 0
    /\ status = \h43

\* C8: ADC leaves A = (A + value) mod 256, whatever the incoming Carry was;
\* Carry set iff A + value > 255; Overflow set iff value and A have the
\* same sign bit and the result has the other one, which is when
\* (value XOR result) AND (result XOR A) AND 0x80 is non-zero.  0x50 + 0x50
\* gives 0xA0 with Carry clear and Overflow set; 0xFF + 0x01 gives 0x00 with
\* Carry set, Zero set and Negative clear.
C8_AddWithCarry ==
    (Executed /\ last.code \in AdcCodes) =>
        LET a == last.pre.register_a
            value == Peek(last.pre.memory, last.addr) IN
        /\ register_a = (a + value) % 256
        /\ (Bit(status, CARRY) = 1) <=> (a + value > 255)
        /\ (Bit(status, OVERFLOW) = 1) <=>
              (Bit(value, 7) = Bit(a, 7) /\ Bit(register_a, 7) # Bit(a, 7))
        /\ (a = \h50 /\ value = \h50) =>
              register_a = \hA0 /\ Bit(status, CARRY) = 0 /\ Bit(status, OVERFLOW) = 1
        /\ (a = \hFF /\ value = \h01) =>
              /\ register_a = \h00 /\ Bit(status, CARRY) = 1
              /\ Bit(status, ZERO) = 1 /\ Bit(status, NEGATIVE) = 0

\* C8 witness: 0x50 + 0x50 with the Carry set on entry
C8_Witness ==
    /\ Executed /\ last.code = \h69
    /\ last.pre.register_a = \h50 /\ OperandOf(last.pre) = \h50
    /\ Bit(last.pre.status, CARRY) = 1
    /\ register_a = \hA0
    /\ status = \hC0

\* the status st with the Carry flag inverted
FlipCarry(st) == IF Bit(st, CARRY) = 1 THEN st - 1 ELSE st + 1

\* C9: SBC of value leaves A and the flags as ADC of 255 - value does from
\* the same state, and as it does from the state with the other Carry: the
\* incoming Carry is not consumed.
C9_SubtractIsAddOfComplement ==
    (Executed /\ last.code \in SbcCodes) =>
        LET value == Peek(last.pre.memory, last.addr)
            added == add_to_reg_a(last.pre, 255 - value)
            other == add_to_reg_a([last.pre EXCEPT !.status = FlipCarry(@)],
                                  255 - value) IN
        /\ register_a = added.register_a /\ status = added.status
        /\ register_a = other.register_a /\ status = other.status
        /\ register_x = last.pre.register_x /\ register_y = last.pre.register_y

\* C9 witness: SBC of 0x80, whose negation as an i8 wraps, with the Carry set
C9_Witness ==
    /\ Executed /\ last.code = \hE9
    /\ OperandOf(last.pre) = \h80 /\ last.pre.register_a = \h01
    /\ Bit(last.pre.status, CARRY) = 1
    /\ register_a = \h80

\* C10: running LDA #v; STA a; BRK through load_and_run leaves mem_read(a) = v
\* and A = v; the store changes the one memory byte at the resolved address
\* a, and changes no register and no flag.
C10_LoadStoreRoundTrip ==
    LET v == Peek(memory, PROGRAM_BASE + 1)
        a == Peek(memory, PROGRAM_BASE + 3) IN
    /\ (Stepped /\ phase = "halted") =>
          mem_read(memory, a) = Ok(v) /\ register_a = v
    /\ (Stepped /\ last.code = \h85) =>
          /\ phase = "running"
          /\ last.addr = a
          /\ memory = Poke(last.pre.memory, a, v)
          /\ \A other \in Touched \ {a} :
                Peek(memory, other) = Peek(last.pre.memory, other)
          /\ SameRegisters(last.pre)

\* C10 witness: the round trip of 0x05 through address 0x10 has run
C10_Witness ==
    /\ Stepped /\ phase = "halted"
    /\ Peek(memory, PROGRAM_BASE + 1) = \h05
    /\ Peek(memory, PROGRAM_BASE + 3) = \h10
    /\ Peek(memory, \h10) = \h05
    /\ register_a = \h05

\* the last iteration executed `code` and wrote `after` over `before`: the
\* register stepped by `delta` modulo 256 and Zero and Negative follow it
C11_Stepped(code, before, after, delta) ==
    (Executed /\ last.code = code) =>
        /\ after = (before + delta) % 256
        /\ (Bit(status, ZERO) = 1) <=> (after = 0)
        /\ (Bit(status, NEGATIVE) = 1) <=> (after >= 128)

\* the second instruction of an increment-decrement pair has executed
C11_PairDone(first, second) ==
    /\ Executed /\ last.code = second
    /\ last.pre.program_counter = PROGRAM_BASE + 1
    /\ Peek(memory, PROGRAM_BASE) = first

\* C11: INX and INY leave (reg + 1) mod 256 (0xFF becomes 0x00), DEX and DEY
\* leave (reg - 1) mod 256 (0x00 becomes 0xFF), for every value of the
\* register; Zero and Negative reflect the new value; INX then DEX, and INY
\* then DEY, restore the value the register had (the run starts with
\* X = 255 - A and Y = (A + 128) mod 256, and A is not written).
C11_IncrementDecrementWrap ==
    /\ C11_Stepped(\hE8, last.pre.register_x, register_x, 1)
    /\ C11_Stepped(\hCA, last.pre.register_x, register_x, -1)
    /\ C11_Stepped(\hC8, last.pre.register_y, register_y, 1)
    /\ C11_Stepped(\h88, last.pre.register_y, register_y, -1)
    /\ (Executed /\ last.code = \hE8 /\ last.pre.register_x = \hFF) => register_x = \h00
    /\ (Executed /\ last.code = \hCA /\ last.pre.register_x = \h00) => register_x = \hFF
    /\ (Executed /\ last.code = \hC8 /\ last.pre.register_y = \hFF) => register_y = \h00
    /\ (Executed /\ last.code = \h88 /\ last.pre.register_y = \h00) => register_y = \hFF
    /\ C11_PairDone(\hE8, \hCA) => register_x = 255 - register_a
    /\ C11_PairDone(\hC8, \h88) => register_y = (register_a + 128) % 256

\* C11 witness: X = 0xFF went to 0x00 by INX and is back at 0xFF by DEX
C11_Witness ==
    /\ C11_PairDone(\hE8, \hCA)
    /\ register_a = \h00
    /\ last.pre.register_x = \h00 /\ Bit(last.pre.status, ZERO) = 1
    /\ register_x = \hFF /\ Bit(status, NEGATIVE) = 1

\* the operand word after the opcode the last iteration fetched
OperandWordOf(pre) ==
    OperandOf(pre) + 256 * Peek(pre.memory, pre.program_counter + 2)

\* the last iteration resolved `addr` for an opcode of `codes`, and the load
\* it executed left the byte at `addr` in `reg`
C12_Resolved(codes, addr, reg) ==
    (Stepped /\ last.code \in codes) =>
        /\ last.addr = addr
        /\ Executed => reg = Peek(last.pre.memory, addr)

\* C12: ZeroPage-X resolves to (operand + X) mod 256 and ZeroPage-Y to
\* (operand + Y) mod 256, for every operand byte and every index, so the
\* address is below 0x100; operand 0xFF with X = 0x01 resolves to 0x0000.
\* Absolute-X and Absolute-Y resolve to (base + X or Y) mod 65536.
C12_IndexedAddressesWrap ==
    /\ C12_Resolved({\hB5}, (OperandOf(last.pre) + last.pre.register_x) % 256,
                    register_a)
    /\ C12_Resolved({\hB6}, (OperandOf(last.pre) + last.pre.register_y) % 256,
                    register_x)
    /\ (Stepped /\ last.code \in {\hB5, \hB6}) => last.addr < 256
    /\ (Stepped /\ last.code = \hB5 /\ OperandOf(last.pre) = \hFF
          /\ last.pre.register_x = \h01) => last.addr = \h0000
    /\ C12_Resolved({\hBD}, (OperandWordOf(last.pre) + last.pre.register_x) % 65536,
                    register_a)
    /\ C12_Resolved({\hB9}, (OperandWordOf(last.pre) + last.pre.register_y) % 65536,
                    register_a)

\* C12 witness: LDA $FF,X with X = 1 has loaded the byte at 0x0000
C12_Witness ==
    /\ Executed /\ last.code = \hB5
    /\ OperandOf(last.pre) = \hFF /\ last.pre.register_x = \h01
    /\ last.addr = \h0000
    /\ register_a = \h80

\* the little-endian word the memory m holds at the zero-page pointer p, its
\* high byte at (p + 1) mod 256
PointerAt(m, p) == Peek(m, p) + 256 * Peek(m, (p + 1) % 256)

\* the last LDA of STA (p),Y; LDA #0; LDA (p),Y has executed
C13_LoadedBack ==
    /\ Executed /\ last.code = \hB1
    /\ last.pre.program_counter = PROGRAM_BASE + 4

\* C13: Indirect-Y with operand byte p resolves to
\* (mem[p] + 256 * mem[(p + 1) mod 256] + Y) mod 65536, with no X offset;
\* the pointer 0x1234 with Y = 0x10 gives 0x1244; and the byte STA (p),Y
\* stored (the run starts with it in A and in X) is the byte LDA (p),Y
\* loads when the pointer bytes are still what the store found.
C13_IndirectY ==
    /\ (Stepped /\ last.code \in IndirectYCodes) =>
          /\ last.addr = (PointerAt(last.pre.memory, OperandOf(last.pre))
                           + last.pre.register_y) % 65536
          /\ (PointerAt(last.pre.memory, OperandOf(last.pre)) = \h1234
                /\ last.pre.register_y = \h10) => last.addr = \h1244
    /\ (Executed /\ last.code = \h91) =>
          memory = Poke(last.pre.memory, last.addr, last.pre.register_a)
    /\ (C13_LoadedBack
          /\ PointerAt(memory, OperandOf(last.pre))
                = PointerAt(PointerBackground, OperandOf(last.pre))) =>
          /\ register_a = register_x
          /\ Peek(memory, last.addr) = register_x

\* C13 witness: the byte stored through the pointer 0x1234 with Y = 0x10 is
\* at 0x1244 and is back in A
C13_Witness ==
    /\ C13_LoadedBack
    /\ OperandOf(last.pre) = \h20 /\ register_y = \h10
    /\ last.addr = \h1244
    /\ last.pre.register_a = \h00
    /\ register_a = OtherIndex
    /\ Peek(memory, \h1244) = OtherIndex

\* the opcodes the match of run() has an arm for
C14_Handled ==
    StaCodes \cup StxCodes \cup StyCodes \cup FlagCodes \cup {\hEA, BRK}

\* C14: an iteration that fetches a byte the opcode table has no entry for,
\* or one it has an entry for but the match has no arm for, ends run() in a
\* panic: it is not passed over, it does not halt, it changes none of A, X,
\* Y, status and memory, and no iteration follows a panic.
C14_UnknownOpcodeIsFatal ==
    [][ /\ phase # "panicked"
        /\ (last'.op = "step" /\ last'.code # -1 /\ last'.code \notin C14_Handled) =>
              /\ phase' = "panicked"
              /\ fault' \in {"opcode_not_found", "not_yet_implemented"}
              /\ register_a' = register_a
              /\ register_x' = register_x
              /\ register_y' = register_y
              /\ status' = status
              /\ memory' = memory ]_vars

\* C14 witness: run() panicked on 0x4C, which the table may hold and the
\* match has no arm for, with registers and flags set
C14_Witness ==
    /\ Stepped /\ phase = "panicked" /\ fault = "not_yet_implemented"
    /\ last.code = \h4C
    /\ register_a = \h81 /\ register_x = \hFF /\ status = \hC3
    /\ Cpu = [last.pre EXCEPT !.program_counter = @ + 1]

\* C15: run() returns only from an iteration that fetched 0x00 at the program
\* counter: whatever the registers, the flags and the memory, no other
\* iteration leaves Running for Halted, and no iteration follows the one
\* that fetched 0x00 (iterations happen only while running).
C15_ReturnsOnlyOnBreak ==
    [][ /\ last'.op = "step" => phase = "running"
        /\ (phase = "running" /\ phase' = "halted") =>
              /\ last'.op = "step"
              /\ last'.code = BRK
              /\ InBounds(program_counter)
              /\ Peek(memory, program_counter) = \h00 ]_vars

\* C15 witness: run() returned on the 0x00 that follows an executed NOP
C15_Witness ==
    /\ Stepped /\ phase = "halted"
    /\ last.pre.program_counter = \h0011
    /\ Peek(memory, \h0010) = \hEA /\ Peek(memory, \h0011) = \h00
    /\ status = \hC3 /\ register_y = \h01

\* C16: every instruction other than ADC and SBC (loads, stores, transfers,
\* increments and decrements, AND, ORA, EOR, NOP) leaves Carry and Overflow
\* as they were, and the stores and NOP leave the whole status byte as it was.
C16_CarryOverflowOnlyByArithmetic ==
    /\ (Executed /\ last.code \notin AdcCodes \cup SbcCodes) =>
          /\ Bit(status, CARRY) = Bit(last.pre.status, CARRY)
          /\ Bit(status, OVERFLOW) = Bit(last.pre.status, OVERFLOW)
    /\ (Executed /\ last.code \in StaCodes \cup StxCodes \cup StyCodes \cup {\hEA}) =>
          status = last.pre.status

\* C16 witness: a load of a negative byte changed Zero and Negative and left
\* the Carry and Overflow that were set
C16_Witness ==
    /\ Executed /\ last.code = \hA5
    /\ last.pre.status = \hC3
    /\ register_a = \hFF
    /\ status = \hC1

\* the zero-page pointer Indirect-X forms from the operand byte and X
C17_Pointer(pre) == (OperandOf(pre) + pre.register_x) % 256

\* C17: Indirect-X with operand byte b takes the pointer p = (b + X) mod 256
\* and resolves to mem[p] + 256 * mem[(p + 1) mod 256]: when p = 0xFF the
\* high byte is the byte at 0x0000, not the one at 0x0100; Y plays no part
\* (it is 0x5A throughout).
C17_IndirectX ==
    (Stepped /\ last.code \in IndirectXCodes) =>
        /\ last.addr = Peek(last.pre.memory, C17_Pointer(last.pre))
                        + 256 * Peek(last.pre.memory, (C17_Pointer(last.pre) + 1) % 256)
        /\ C17_Pointer(last.pre) = \hFF =>
              last.addr = Peek(last.pre.memory, \h00FF)
                          + 256 * Peek(last.pre.memory, \h0000)
        /\ Executed => register_a = Peek(last.pre.memory, last.addr)

\* C17 witness: LDA ($F0,X) with X = 0x0F took its pointer at 0xFF and 0x00
C17_Witness ==
    /\ Executed /\ last.code = \hA1
    /\ OperandOf(last.pre) = \hF0 /\ last.pre.register_x = \h0F
    /\ register_y = OtherIndex
    /\ Peek(memory, \h0000) = \h80 /\ Peek(memory, \h0100) = \h55
    /\ last.addr = \h807F

\* C18: every iteration of run() that executes an instruction raises the
\* program counter by 1, 2 or 3 and leaves it a u16, so at most 65535 of
\* them follow one another; and run() ends, halted or panicked, from every
\* starting state, also when a store overwrites the bytes of the program.
C18_RunEnds ==
    /\ [][ (last'.op = "step" /\ phase' = "running") =>
              /\ program_counter' - program_counter \in 1..3
              /\ program_counter' <= 65535 ]_vars
    /\ (phase = "running" ~> phase # "running")

\* C18 witness: run() executed INX at 0xFFFE, the last byte of the memory,
\* and ended in the fetch at program counter 0xFFFF
C18_Witness ==
    /\ Stepped /\ phase = "panicked"
    /\ last.code = -1
    /\ program_counter = \hFFFF
    /\ Peek(memory, \hFFFE) = \hE8
    /\ register_x = \h02

\* the status bits no flag of this core uses (0b0011_1100)
UnusedBits == 2..5

\* C19: from new(), after any sequence of load, reset, run and load_and_run
\* calls (and mem_read and mem_write), bits 2, 3, 4 and 5 of status are 0:
\* only Carry, Zero, Overflow and Negative are ever set.
C19_UnusedStatusBitsStayZero ==
    \A bit \in UnusedBits : Bit(status, bit) = 0

\* C19 witness: an ADC set Carry and Zero, and a later run() is under way
\* with them still set
C19_Witness ==
    /\ calls.runs = 2 /\ phase = "running"
    /\ status = \h03

\* C20: SBC of value leaves A = (A - value - 1) mod 256 and sets Carry iff A
\* was strictly above value, whatever the incoming Carry was; a value
\* subtracted from an equal accumulator leaves 0xFF with Carry clear and
\* Negative set, never 0x00.
C20_SubtractBorrowsOne ==
    (Executed /\ last.code \in SbcCodes) =>
        LET a == last.pre.register_a
            value == Peek(last.pre.memory, last.addr) IN
        /\ register_a = (a - value - 1) % 256
        /\ (Bit(status, CARRY) = 1) <=> (a > value)
        /\ (a = value) =>
              /\ register_a = \hFF
              /\ Bit(status, CARRY) = 0
              /\ Bit(status, NEGATIVE) = 1
              /\ Bit(status, ZERO) = 0

\* C20 witness: 0x40 - 0x40 with the Carry set on entry left 0xFF
C20_Witness ==
    /\ Executed /\ last.code = \hE9
    /\ last.pre.register_a = \h40 /\ OperandOf(last.pre) = \h40
    /\ last.pre.status = \hC3
    /\ register_a = \hFF
    /\ status = \h80

====
